---- MODULE Spec2Model ----
(***************************************************************************)
(* rqlite: a single-table store kept in a paged B+-tree (src/src/main.rs). *)
(* The model follows the source: the node operations, the node codec, the  *)
(* pager, the cursor and the table facade are operators named after the    *)
(* functions they model; the REPL commands are the actions.                *)
(*                                                                         *)
(* Representation.                                                         *)
(*   Option<T>            None, or Some(x) = [some |-> TRUE, v |-> x]       *)
(*   [Option<T>; N]       a function whose domain is the set of the slots   *)
(*                        that hold Some; a slot outside it holds None      *)
(*   [u8; N] of a row     the number of bytes copied into the zeroed buffer *)
(*   a token of a line    [num |-> what parse::<i64>() gives, len |-> its   *)
(*                        length in bytes]                                  *)
(*   the file             the sequence of its pages, each the fields that   *)
(*                        write_at wrote, in the order it wrote them        *)
(***************************************************************************)
EXTENDS Integers, Sequences, FiniteSets, TLC

\* ---------------------------------------------------------------- constants

NOT_EXIST == -1
PAGE_SIZE == 4096
ID_SIZE == 8
NAME_MAX_SIZE == 32
DESCRIPTION_MAX_SIZE == 256
PAGE_MAX_NUM == 64

NODE_KIND_SIZE == 1
NODE_IS_ROOT_SIZE == 1
NODE_PARENT_SIZE == 4
NODE_N_CELLS_SIZE == 4
NODE_HEADER_SIZE ==
    NODE_KIND_SIZE + NODE_IS_ROOT_SIZE + NODE_PARENT_SIZE + NODE_N_CELLS_SIZE

LEAF_NODE_HEADER_SIZE == NODE_HEADER_SIZE
LEAF_NODE_SPACE_FOR_CELLS == PAGE_SIZE - LEAF_NODE_HEADER_SIZE
LEAF_NODE_CELL_KEY_SIZE == 8
LEAF_NODE_CELL_SIZE ==
    LEAF_NODE_CELL_KEY_SIZE + ID_SIZE + NAME_MAX_SIZE + DESCRIPTION_MAX_SIZE
LEAF_NODE_CELL_MAX_NUM == LEAF_NODE_SPACE_FOR_CELLS \div LEAF_NODE_CELL_SIZE

INTERNAL_NODE_RIGHT_CHILD_SIZE == 4
INTERNAL_NODE_HEADER_SIZE == NODE_HEADER_SIZE + INTERNAL_NODE_RIGHT_CHILD_SIZE
INTERNAL_NODE_SPACE_FOR_CELLS == PAGE_SIZE - INTERNAL_NODE_HEADER_SIZE
INTERNAL_NODE_CELL_KEY_SIZE == 8
INTERNAL_NODE_CELL_CHILD_SIZE == 4
INTERNAL_NODE_CELL_SIZE == INTERNAL_NODE_CELL_KEY_SIZE + INTERNAL_NODE_CELL_CHILD_SIZE
INTERNAL_NODE_CELL_MAX_NUM == INTERNAL_NODE_SPACE_FOR_CELLS \div INTERNAL_NODE_CELL_SIZE

SPLIT_RIGHT_LEAF_NODE_NUM == (LEAF_NODE_CELL_MAX_NUM + 1) \div 2
SPLIT_LEFT_LEAF_NODE_NUM == (LEAF_NODE_CELL_MAX_NUM + 1) - SPLIT_RIGHT_LEAF_NODE_NUM

ERR_INSERT_SYNTAX == "ERROR: insert <id> <name> <description>."
ERR_NOT_POSITIVE_ID == "ERROR: id must be greater than 0."
ERR_NAME_TOO_LONG == "ERROR: name too long."
ERR_DESCRIPTION_TOO_LONG == "ERROR: description too long."
ERR_TABLE_FULL == "ERROR: table reach max size."
\* format!("ERROR: key '{id}' already exist."), without the id
ERR_KEY_EXIST == "ERROR: key already exist."

\* ------------------------------------------------------------------ options

None == [some |-> FALSE]
Some(x) == [some |-> TRUE, v |-> x]

\* [const { None }; N]
EmptyCells == [i \in {} |-> None]
\* cells[i] = Some(c)
PutCell(cells, i, c) == [j \in (DOMAIN cells) \cup {i} |-> IF j = i THEN c ELSE cells[j]]
\* a take that leaves the cell in its slot
KeepCell(cells, i) == cells

\* cells[i].take(), the array it leaves
TakeCell(cells, i) == [j \in (DOMAIN cells) \ {i} |-> cells[j]]

Min(a, b) == IF a < b THEN a ELSE b

\* --------------------------------------------------------------------- Node

\* the node get_page allocates
\* a new page that claims to be the root
RootBlankNode ==
    [kind |-> "Leaf", is_root |-> TRUE, parent |-> NOT_EXIST, n_cells |-> 0,
     leaf_cells |-> None, right_child |-> None, internal_cells |-> None]

\* the node get_page puts in a slot past n_pages
BlankNode ==
    [kind |-> "Leaf", is_root |-> FALSE, parent |-> NOT_EXIST, n_cells |-> 0,
     leaf_cells |-> None, right_child |-> None, internal_cells |-> None]

become_leaf_node(node) ==
    [node EXCEPT !.kind = "Leaf", !.n_cells = 0, !.leaf_cells = Some(EmptyCells),
                 !.right_child = None, !.internal_cells = None]

become_internal_node(node) ==
    [node EXCEPT !.kind = "Internal", !.n_cells = 0, !.leaf_cells = None,
                 !.right_child = Some(NOT_EXIST),
                 !.internal_cells = Some(EmptyCells)]

get_n_cells(node) == node.n_cells

\* Option<&LeafCell>
read_leaf_cell(node, cell_index) ==
    IF ~node.leaf_cells.some THEN None
    ELSE IF cell_index >= LEAF_NODE_CELL_MAX_NUM THEN None
    ELSE IF cell_index \in DOMAIN node.leaf_cells.v
         THEN Some(node.leaf_cells.v[cell_index])
         ELSE None

\* Option<&InternalCell>
read_internal_cell(node, cell_index) ==
    IF ~node.internal_cells.some THEN None
    ELSE IF cell_index >= INTERNAL_NODE_CELL_MAX_NUM THEN None
    ELSE IF cell_index \in DOMAIN node.internal_cells.v
         THEN Some(node.internal_cells.v[cell_index])
         ELSE None

\* called on leaf nodes only (leaf_cells is Some) with cell_index below the capacity
put_leaf_cell(node, cell_index, cell) ==
    [node EXCEPT !.leaf_cells = Some(PutCell(node.leaf_cells.v, cell_index, cell))]

\* the cells left where they are
NoShift(cells, cell_index, i) == cells

\* the while loop of insert_leaf_cell: leaf_cells[i] = leaf_cells[i - 1].take()
RECURSIVE ShiftCells(_, _, _)
ShiftCells(cells, cell_index, i) ==
    IF cell_index < i
    THEN LET moved == IF (i - 1) \in DOMAIN cells
                      THEN PutCell(TakeCell(cells, i - 1), i, cells[i - 1])
                      ELSE TakeCell(cells, i)
         IN  ShiftCells(moved, cell_index, i - 1)
    ELSE cells

\* [panic |-> the call panicked, node |-> the node afterwards]
insert_leaf_cell(node, cell_index, cell) ==
    IF cell_index >= LEAF_NODE_CELL_MAX_NUM \/ node.n_cells >= LEAF_NODE_CELL_MAX_NUM
    THEN [panic |-> TRUE, node |-> node]
    ELSE [panic |-> FALSE,
          node |-> [node EXCEPT
                      !.leaf_cells =
                          Some(PutCell(ShiftCells(node.leaf_cells.v, cell_index,
                                                  node.n_cells),
                                       cell_index, cell)),
                      !.n_cells = node.n_cells + 1]]

\* a get_max_key that reads the first cell instead of the last
FirstKey(node) ==
    IF node.kind = "Leaf"
    THEN read_leaf_cell(node, 0).v.key
    ELSE read_internal_cell(node, 0).v.key

\* called with n_cells >= 1 and a cell in the last slot
get_max_key(node) ==
    IF node.kind = "Leaf"
    THEN read_leaf_cell(node, node.n_cells - 1).v.key
    ELSE read_internal_cell(node, node.n_cells - 1).v.key

\* called on internal nodes with child_index <= n_cells
get_child_index(node, child_index) ==
    IF child_index = node.n_cells
    THEN node.right_child.v
    ELSE read_internal_cell(node, child_index).v.child

\* --------------------------------------------------------------- Node codec

\* NodeKind::to_u8 and NodeKind::from_u8
to_u8(kind) == IF kind = "Internal" THEN 1 ELSE 2
from_u8(v) == IF v = 1 THEN Some("Internal") ELSE IF v = 2 THEN Some("Leaf") ELSE None

\* the cells of slots 0 .. n-1 that hold Some, in slot order: .iter().take(n).flatten()
RECURSIVE TakeFlatten(_, _, _)
TakeFlatten(cells, n, i) ==
    IF i >= n THEN <<>>
    ELSE (IF i \in DOMAIN cells THEN <<cells[i]>> ELSE <<>>) \o TakeFlatten(cells, n, i + 1)

\* the fields of a cell in the order write_at writes them and read_at reads them
LeafCellBytes(cell) == <<cell.key, cell.value.id, cell.value.name, cell.value.description>>
InternalCellBytes(cell) == <<cell.child, cell.key>>

RECURSIVE CellsBytes(_, _)
CellsBytes(kind, cells) ==
    IF cells = <<>> THEN <<>>
    ELSE <<IF kind = "Internal" THEN InternalCellBytes(Head(cells))
           ELSE LeafCellBytes(Head(cells))>> \o CellsBytes(kind, Tail(cells))

\* the cells that write_at writes
WrittenCells(node) ==
    IF node.kind = "Internal"
    THEN TakeFlatten(node.internal_cells.v,
                     Min(get_n_cells(node), INTERNAL_NODE_CELL_MAX_NUM), 0)
    ELSE TakeFlatten(node.leaf_cells.v, Min(get_n_cells(node), LEAF_NODE_CELL_MAX_NUM), 0)

\* offset - start once the header and the cells are written
WrittenLen(kind, n) ==
    IF kind = "Internal" THEN INTERNAL_NODE_HEADER_SIZE + n * INTERNAL_NODE_CELL_SIZE
    ELSE LEAF_NODE_HEADER_SIZE + n * LEAF_NODE_CELL_SIZE

\* a page that ends at its last cell, with no padding
NoPadding(kind, n) == 0

\* the length of the padding that ends the page
padding_len(kind, n) == PAGE_SIZE - WrittenLen(kind, n)

\* write_at once the cells to write are known
WritePage(node, cells) ==
    [kind |-> to_u8(node.kind),
     is_root |-> IF node.is_root THEN 1 ELSE 0,
     parent |-> node.parent,
     n_cells |-> get_n_cells(node),
     right_child |-> IF node.kind = "Internal" THEN node.right_child.v ELSE 0,
     cells |-> CellsBytes(node.kind, cells),
     padding_len |-> padding_len(node.kind, Len(cells))]

\* write_at: the fields written from `start` on, and the padding that follows them
write_at(node) == WritePage(node, WrittenCells(node))

\* the bytes of a page that follow its last written cell are the zero padding
ZeroLeafCell == <<0, 0, 0, 0>>
ZeroInternalCell == <<0, 0>>

\* the leaf cell and the internal cell that read_at builds from the fields it reads
ReadLeafCell(b) == [key |-> b[1], value |-> [id |-> b[2], name |-> b[3], description |-> b[4]]]
ReadInternalCell(b) == [child |-> b[1], key |-> b[2]]

\* the fields of cell i of a page: past the written cells the padding is read
CellBytesAt(page, i, zero) == IF i + 1 <= Len(page.cells) THEN page.cells[i + 1] ELSE zero

\* read_at once the kind byte is decoded
ReadPage(page, kind) ==
    [kind |-> kind,
     is_root |-> page.is_root # 0,
     parent |-> page.parent,
     n_cells |-> page.n_cells,
     leaf_cells |->
        IF kind = "Leaf"
        THEN Some([i \in 0 .. (Min(page.n_cells, LEAF_NODE_CELL_MAX_NUM) - 1) |->
                       ReadLeafCell(CellBytesAt(page, i, ZeroLeafCell))])
        ELSE None,
     right_child |-> IF kind = "Internal" THEN Some(page.right_child) ELSE None,
     internal_cells |->
        IF kind = "Internal"
        THEN Some([i \in 0 .. (Min(page.n_cells, INTERNAL_NODE_CELL_MAX_NUM) - 1) |->
                       ReadInternalCell(CellBytesAt(page, i, ZeroInternalCell))])
        ELSE None]

\* read_at of a page whose kind byte is 1 or 2
read_at(page) == ReadPage(page, from_u8(page.kind).v)

\* -------------------------------------------------------------------- Pager
\* A pager is [pages |-> the slot array, n_pages |-> n_pages]; the file is read only.

NoPages == [i \in 0 .. (PAGE_MAX_NUM - 1) |-> None]

\* Pager::new on a file of whole pages
PagerNew(f) == [pages |-> NoPages, n_pages |-> (Len(f) * PAGE_SIZE) \div PAGE_SIZE]

\* the index of the last page in place of the index past it
LastPageIndex(p) == p.n_pages - 1

get_new_page_index(p) == p.n_pages

\* the page at a byte offset of the file
PageAt(f, offset) == f[(offset \div PAGE_SIZE) + 1]

\* a fetch that reads the page of the file over a populated slot too
FetchAlways(p, f, page_index) ==
    IF page_index * PAGE_SIZE < Len(f) * PAGE_SIZE
    THEN [p EXCEPT !.pages[page_index] = Some(read_at(PageAt(f, page_index * PAGE_SIZE)))]
    ELSE p

fetch_page_from_file(p, f, page_index) ==
    IF ~p.pages[page_index].some
    THEN [p EXCEPT !.pages[page_index] = Some(read_at(PageAt(f, page_index * PAGE_SIZE)))]
    ELSE p

\* [ok |-> FALSE for Err(ERR_TABLE_FULL), p |-> the pager afterwards]
get_page(p, f, page_index) ==
    IF page_index >= PAGE_MAX_NUM THEN [ok |-> FALSE, p |-> p]
    ELSE IF p.pages[page_index].some THEN [ok |-> TRUE, p |-> p]
    ELSE IF page_index < p.n_pages
         THEN [ok |-> TRUE, p |-> fetch_page_from_file(p, f, page_index)]
         ELSE [ok |-> TRUE,
               p |-> [p EXCEPT !.n_pages = page_index + 1,
                               !.pages[page_index] = Some(BlankNode)]]

\* the node of a populated slot
NodeOf(p, page_index) == p.pages[page_index].v

SetNode(p, page_index, node) == [p EXCEPT !.pages[page_index] = Some(node)]

\* ------------------------------------------------------------------- Cursor
\* A cursor is [page_index, cell_index, end_of_table] beside the pager it borrows;
\* the constructors give [p |-> the pager after their get_page calls, c |-> the cursor].
\* An operator that uses a value several times takes it as a parameter: the steps of a
\* function of the source are chained operators, each named after what it has done.

\* the binary search of from_leaf_node: the cursor's [cell_index, end_of_table]
RECURSIVE LeafSearch(_, _, _, _, _)
LeafSearch(node, key, n_cells, left, right) ==
    IF left # right
    THEN IF key = read_leaf_cell(node, (left + right) \div 2).v.key
         THEN [cell_index |-> (left + right) \div 2, end_of_table |-> FALSE]
         ELSE IF key < read_leaf_cell(node, (left + right) \div 2).v.key
         THEN LeafSearch(node, key, n_cells, left, (left + right) \div 2)
         ELSE LeafSearch(node, key, n_cells, ((left + right) \div 2) + 1, right)
    ELSE [cell_index |-> left, end_of_table |-> left = n_cells]

\* from_leaf_node once the page is in the cache
LeafCursor(p, page_index, found) ==
    [p |-> p,
     c |-> [page_index |-> page_index, cell_index |-> found.cell_index,
            end_of_table |-> found.end_of_table]]

from_leaf_node(p, f, page_index, key) ==
    LeafCursor(get_page(p, f, page_index).p, page_index,
               LeafSearch(NodeOf(get_page(p, f, page_index).p, page_index), key,
                          get_n_cells(NodeOf(get_page(p, f, page_index).p, page_index)),
                          0,
                          get_n_cells(NodeOf(get_page(p, f, page_index).p, page_index))))

\* a search that passes by a separator equal to the key
RECURSIVE InternalSearchStrict(_, _, _, _)
InternalSearchStrict(node, key, left, right) ==
    IF left # right
    THEN IF key < read_internal_cell(node, (left + right) \div 2).v.key
         THEN InternalSearchStrict(node, key, left, (left + right) \div 2)
         ELSE InternalSearchStrict(node, key, ((left + right) \div 2) + 1, right)
    ELSE left

\* the binary search of from_internal_node: the slot it ends on
RECURSIVE InternalSearch(_, _, _, _)
InternalSearch(node, key, left, right) ==
    IF left # right
    THEN IF key <= read_internal_cell(node, (left + right) \div 2).v.key
         THEN InternalSearch(node, key, left, (left + right) \div 2)
         ELSE InternalSearch(node, key, ((left + right) \div 2) + 1, right)
    ELSE left

RECURSIVE from_internal_node(_, _, _, _)

\* the match on child_node.kind (and, in Cursor::from, on root_node.kind)
FromNodeKind(p, f, page_index, key) ==
    IF NodeOf(p, page_index).kind = "Leaf"
    THEN from_leaf_node(p, f, page_index, key)
    ELSE from_internal_node(p, f, page_index, key)

\* from_internal_node once the page is in the cache and the child is chosen
FromChild(p, f, child_index, key) ==
    FromNodeKind(get_page(p, f, child_index).p, f, child_index, key)

FromInternalPage(p, f, page_index, key) ==
    FromChild(p, f,
              get_child_index(NodeOf(p, page_index),
                              InternalSearch(NodeOf(p, page_index), key, 0,
                                             get_n_cells(NodeOf(p, page_index)))),
              key)

from_internal_node(p, f, page_index, key) ==
    FromInternalPage(get_page(p, f, page_index).p, f, page_index, key)

\* Cursor::from; root_node_index is 0
root_node_index == 0

CursorFrom(p, f, key) ==
    FromNodeKind(get_page(p, f, root_node_index).p, f, root_node_index, key)

\* from_start once the root is in the cache
StartCursor(p) ==
    [p |-> p,
     c |-> [page_index |-> root_node_index, cell_index |-> 0,
            end_of_table |-> get_n_cells(NodeOf(p, root_node_index)) = 0]]

from_start(p, f) == StartCursor(get_page(p, f, root_node_index).p)

\* Cursor::advance
advance(p, c) ==
    [c EXCEPT !.cell_index = c.cell_index + 1,
              !.end_of_table = IF c.cell_index + 1 >= get_n_cells(NodeOf(p, c.page_index))
                               THEN TRUE ELSE c.end_of_table]

\* Cursor::read_leaf_cell on a populated page
CursorRead(p, c) == read_leaf_cell(NodeOf(p, c.page_index), c.cell_index)

\* One step of the redistribution loop of write_leaf_cell, for the position i of the
\* merged sequence: s is [old |-> old_node, new |-> new_node, panic |-> unwrap of None];
\* `moved` is the cell that goes to slot i % SPLIT_LEFT_LEAF_NODE_NUM, `old1` the old
\* node after the take.
SplitPut(old1, new_node, i, moved) ==
    IF i >= SPLIT_LEFT_LEAF_NODE_NUM
    THEN [old |-> old1,
          new |-> put_leaf_cell(new_node, i % SPLIT_LEFT_LEAF_NODE_NUM, moved),
          panic |-> FALSE]
    ELSE [old |-> put_leaf_cell(old1, i % SPLIT_LEFT_LEAF_NODE_NUM, moved),
          new |-> new_node,
          panic |-> FALSE]

SplitTake(s, i, index) ==
    IF index \notin DOMAIN s.old.leaf_cells.v THEN [s EXCEPT !.panic = TRUE]
    ELSE SplitPut([s.old EXCEPT !.leaf_cells = Some(TakeCell(s.old.leaf_cells.v, index))],
                  s.new, i, s.old.leaf_cells.v[index])

\* a step that takes every old cell from the slot of its position
SplitStepSameSlot(s, cursor_cell_index, cell, i) ==
    IF i = cursor_cell_index THEN SplitPut(s.old, s.new, i, cell)
    ELSE SplitTake(s, i, Min(i, LEAF_NODE_CELL_MAX_NUM - 1))

\* the body of the loop for the position i
SplitStep(s, cursor_cell_index, cell, i) ==
    IF i = cursor_cell_index THEN SplitPut(s.old, s.new, i, cell)
    ELSE SplitTake(s, i, IF i > cursor_cell_index THEN i - 1 ELSE i)

\* for i in (0..LEAF_NODE_CELL_MAX_NUM + 1).rev()
RECURSIVE SplitLoop(_, _, _, _)
SplitLoop(s, cursor_cell_index, cell, i) ==
    IF i < 0 \/ s.panic THEN s
    ELSE SplitLoop(SplitStep(s, cursor_cell_index, cell, i), cursor_cell_index, cell, i - 1)

\* for i in 0..n_cells: left_child_leaf_cells[i] = Some(root_leaf_cells[i].take().unwrap())
RECURSIVE MoveCells(_, _, _, _)
MoveCells(from_cells, to_cells, n_cells, i) ==
    IF i >= n_cells THEN [from |-> from_cells, to |-> to_cells]
    ELSE MoveCells(TakeCell(from_cells, i), PutCell(to_cells, i, from_cells[i]),
                   n_cells, i + 1)

\* The root-split half of write_leaf_cell: [res |-> "Ok" or the error, p |-> the pager
\* afterwards].  RootInstall: the root becomes internal above the filled left child.
RootInstall(p, page_index, new_page_index, left_child_page_index, left_child) ==
    [res |-> "Ok",
     p |-> SetNode(SetNode(p, left_child_page_index, left_child), page_index,
                   [become_internal_node(NodeOf(p, page_index)) EXCEPT
                      !.n_cells = 1,
                      !.right_child = Some(new_page_index),
                      !.internal_cells =
                          Some(PutCell(become_internal_node(NodeOf(p, page_index))
                                           .internal_cells.v,
                                       0,
                                       [key |-> get_max_key(left_child),
                                        child |-> left_child_page_index]))])]

\* the left child takes n_cells, the parent and the cells of the root
RootMove(p, page_index, new_page_index, left_child_page_index) ==
    RootInstall(p, page_index, new_page_index, left_child_page_index,
                [NodeOf(p, left_child_page_index) EXCEPT
                   !.n_cells = get_n_cells(NodeOf(p, page_index)),
                   !.parent = page_index,
                   !.leaf_cells =
                       Some(MoveCells(NodeOf(p, page_index).leaf_cells.v,
                                      NodeOf(p, left_child_page_index).leaf_cells.v,
                                      get_n_cells(NodeOf(p, page_index)), 0).to)])

\* after get_page(left_child_page_index)?
RootAlloc(g, page_index, new_page_index, left_child_page_index) ==
    IF ~g.ok THEN [res |-> ERR_TABLE_FULL, p |-> g.p]
    ELSE RootMove(SetNode(g.p, left_child_page_index,
                          become_leaf_node(NodeOf(g.p, left_child_page_index))),
                  page_index, new_page_index, left_child_page_index)

RootSplit(p, f, page_index, new_page_index) ==
    RootAlloc(get_page(p, f, get_new_page_index(p)), page_index, new_page_index,
              get_new_page_index(p))

\* a split that ends once the two leaves have their cells
LeafSplitOnly(p, f, c, new_page_index) == [res |-> "Ok", p |-> p]

\* Cursor::write_leaf_cell: [res |-> "Ok", an error or "Panic", p |-> the pager
\* afterwards].  AfterSplit: the test of old_node.is_root.
AfterSplit(p, f, c, new_page_index) ==
    IF NodeOf(p, c.page_index).is_root
    THEN RootSplit(SetNode(p, new_page_index,
                           [NodeOf(p, new_page_index) EXCEPT !.parent = c.page_index]),
                   f, c.page_index, new_page_index)
    ELSE [res |-> "Panic", p |-> p]

\* after the redistribution loop: the two n_cells are set
SplitDone(p, f, c, new_page_index, s) ==
    IF s.panic
    THEN [res |-> "Panic",
          p |-> SetNode(SetNode(p, c.page_index, s.old), new_page_index, s.new)]
    ELSE AfterSplit(SetNode(SetNode(p, c.page_index,
                                    [s.old EXCEPT !.n_cells = SPLIT_LEFT_LEAF_NODE_NUM]),
                            new_page_index,
                            [s.new EXCEPT !.n_cells = SPLIT_RIGHT_LEAF_NODE_NUM]),
                    f, c, new_page_index)

\* after get_page(new_page_index)?
SplitAlloc(h, f, c, cell, new_page_index) ==
    IF ~h.ok THEN [res |-> ERR_TABLE_FULL, p |-> h.p]
    ELSE SplitDone(h.p, f, c, new_page_index,
                   SplitLoop([old |-> NodeOf(h.p, c.page_index),
                              new |-> become_leaf_node(NodeOf(h.p, new_page_index)),
                              panic |-> FALSE],
                             c.cell_index, cell, LEAF_NODE_CELL_MAX_NUM))

\* the non-full path, after insert_leaf_cell
LeafInserted(p, c, r) ==
    IF r.panic THEN [res |-> "Panic", p |-> p]
    ELSE [res |-> "Ok", p |-> SetNode(p, c.page_index, r.node)]

\* a test that takes every leaf to have room
AlwaysRoom(node) == TRUE

\* the test of write_leaf_cell that sends the cell to insert_leaf_cell
HasRoom(node) == get_n_cells(node) < LEAF_NODE_CELL_MAX_NUM

\* after get_page(self.page_index)?
WriteToPage(g, f, c, cell) ==
    IF ~g.ok THEN [res |-> ERR_TABLE_FULL, p |-> g.p]
    ELSE IF HasRoom(NodeOf(g.p, c.page_index))
    THEN LeafInserted(g.p, c, insert_leaf_cell(NodeOf(g.p, c.page_index), c.cell_index, cell))
    ELSE SplitAlloc(get_page(g.p, f, get_new_page_index(g.p)), f, c, cell,
                    get_new_page_index(g.p))

write_leaf_cell(p, f, c, cell) == WriteToPage(get_page(p, f, c.page_index), f, c, cell)

\* -------------------------------------------------------------------- Table

\* Table::new
TableNew(p0, f) ==
    IF p0.n_pages = 0
    THEN SetNode(get_page(p0, f, root_node_index).p, root_node_index,
                 [become_leaf_node(NodeOf(get_page(p0, f, root_node_index).p,
                                          root_node_index))
                    EXCEPT !.is_root = TRUE])
    ELSE p0

\* the row Table::insert builds from three tokens that passed its checks
RowOf(args) ==
    [id |-> args[1].num.v,
     name |-> Min(args[2].len, NAME_MAX_SIZE),
     description |-> Min(args[3].len, DESCRIPTION_MAX_SIZE)]

\* Table::insert: [res |-> "Ok", the error or "Panic", p |-> the pager afterwards].
\* InsertAt: the duplicate check on the cursor `cur`, against the root's n_cells.
InsertAt(cur, f, args, n_cells) ==
    IF cur.c.cell_index < n_cells /\ ~CursorRead(cur.p, cur.c).some
    THEN [res |-> "Panic", p |-> cur.p]
    ELSE IF cur.c.cell_index < n_cells /\ args[1].num.v = CursorRead(cur.p, cur.c).v.key
    THEN [res |-> ERR_KEY_EXIST, p |-> cur.p]
    ELSE write_leaf_cell(cur.p, f, cur.c, [key |-> args[1].num.v, value |-> RowOf(args)])

\* after get_page(self.root_node_index)?
InsertRow(p, f, args) ==
    InsertAt(CursorFrom(p, f, args[1].num.v), f, args,
             get_n_cells(NodeOf(p, root_node_index)))

TableInsert(p, f, args) ==
    IF Len(args) # 3 THEN [res |-> ERR_INSERT_SYNTAX, p |-> p]
    ELSE IF ~args[1].num.some THEN [res |-> ERR_INSERT_SYNTAX, p |-> p]
    ELSE IF args[1].num.v <= 0 THEN [res |-> ERR_NOT_POSITIVE_ID, p |-> p]
    ELSE IF args[2].len > NAME_MAX_SIZE THEN [res |-> ERR_NAME_TOO_LONG, p |-> p]
    ELSE IF args[3].len > DESCRIPTION_MAX_SIZE
    THEN [res |-> ERR_DESCRIPTION_TOO_LONG, p |-> p]
    ELSE InsertRow(get_page(p, f, root_node_index).p, f, args)

\* the loop of Table::select: the rows printed, in the order printed
RECURSIVE SelectLoop(_, _, _)
SelectLoop(p, c, printed) ==
    IF c.end_of_table THEN printed
    ELSE SelectLoop(p, advance(p, c),
                    IF CursorRead(p, c).some
                    THEN Append(printed, CursorRead(p, c).v.value)
                    ELSE printed)

\* Table::select: [p |-> the pager afterwards, printed |-> the rows printed]
SelectFrom(s) == [p |-> s.p, printed |-> SelectLoop(s.p, s.c, <<>>)]

TableSelect(p, f) == SelectFrom(from_start(p, f))

\* Pager::print_tree: the pager after the fetches of the dump
RECURSIVE print_tree(_, _, _)
RECURSIVE PrintChildren(_, _, _, _)
PrintChildren(p, f, page_index, i) ==
    IF i < get_n_cells(NodeOf(p, page_index))
    THEN PrintChildren(print_tree(p, f, read_internal_cell(NodeOf(p, page_index), i).v.child),
                       f, page_index, i + 1)
    ELSE print_tree(p, f, NodeOf(p, page_index).right_child.v)

\* print_tree once the page is in the cache
PrintNode(p, f, page_index) ==
    IF NodeOf(p, page_index).kind = "Leaf" THEN p
    ELSE PrintChildren(p, f, page_index, 0)

print_tree(p, f, page_index) ==
    PrintNode(fetch_page_from_file(p, f, page_index), f, page_index)

\* ----------------------------------------------------------------- teardown

\* a page of zero bytes, where a write past the end of the file leaves a hole
ZeroPage ==
    [kind |-> 0, is_root |-> 0, parent |-> 0, n_cells |-> 0, right_child |-> 0,
     cells |-> <<>>, padding_len |-> PAGE_SIZE - LEAF_NODE_HEADER_SIZE]

RECURSIVE Holes(_)
Holes(n) == IF n <= 0 THEN <<>> ELSE <<ZeroPage>> \o Holes(n - 1)

\* write_and_advance for the writes of one page at `offset`.  The file is opened with
\* append(true): where pwrite honours O_APPEND (Linux) every write lands at the end of
\* the file, elsewhere at the offset given.
write_and_advance(f, page, offset, os_appends) ==
    LET at == (offset \div PAGE_SIZE) + 1
    IN  IF os_appends THEN Append(f, page)
        ELSE IF at <= Len(f) THEN [f EXCEPT ![at] = page]
        ELSE (f \o Holes(at - 1 - Len(f))) \o <<page>>

\* a flush that writes a page of zeros for a slot that holds None
FlushEverySlot(p, f, page_index, os_appends) ==
    IF ~p.pages[page_index].some
    THEN write_and_advance(f, ZeroPage, page_index * PAGE_SIZE, os_appends)
    ELSE write_and_advance(f, write_at(NodeOf(p, page_index)), page_index * PAGE_SIZE,
                           os_appends)

flush_page_to_file(p, f, page_index, os_appends) ==
    IF ~p.pages[page_index].some THEN f
    ELSE write_and_advance(f, write_at(NodeOf(p, page_index)), page_index * PAGE_SIZE,
                           os_appends)

\* The loop of Drop for Table over the page indexes first .. last - 1, in ascending
\* order: the lower half of the range is flushed, and then the upper half on the file
\* g that the lower half left.
RECURSIVE FlushRange(_, _, _, _, _)
FlushRange(p, f, first, last, os_appends) ==
    IF first >= last THEN f
    ELSE IF first + 1 = last THEN flush_page_to_file(p, f, first, os_appends)
    ELSE CHOOSE r \in {FlushRange(p, g, (first + last) \div 2, last, os_appends) :
                          g \in {FlushRange(p, f, first, (first + last) \div 2,
                                            os_appends)}} : TRUE

\* a teardown whose loop starts at page 1
DropFromOne(p, f, os_appends) ==
    [f |-> FlushRange(p, f, 1, Min(p.n_pages, PAGE_MAX_NUM), os_appends),
     panic |-> p.n_pages > PAGE_MAX_NUM]

\* Drop for Table: [f |-> the file afterwards, panic |-> the loop came to an index past
\* the end of the slot array]
TableDrop(p, f, os_appends) ==
    [f |-> FlushRange(p, f, 0, Min(p.n_pages, PAGE_MAX_NUM), os_appends),
     panic |-> p.n_pages > PAGE_MAX_NUM]

\* -------------------------------------------------------------------- state

VARIABLES
    file,       \* the database file: the sequence of its pages
    pages,      \* Pager.pages
    n_pages,    \* Pager.n_pages
    phase,      \* "running", or how the process ended: "exited", "panicked" (in an
                \* insert), "drop_panicked" (in the teardown of a clean exit)
    session,    \* the number of processes started on the file since Init
    accepted    \* history: the rows whose insert returned Ok, sorted by id

vars == <<file, pages, n_pages, phase, session, accepted>>

pager == [pages |-> pages, n_pages |-> n_pages]

\* the history with one more row, kept sorted by id
RECURSIVE InsertSorted(_, _)
InsertSorted(rows, row) ==
    IF rows = <<>> THEN <<row>>
    ELSE IF row.id < Head(rows).id THEN <<row>> \o rows
    ELSE <<Head(rows)>> \o InsertSorted(Tail(rows), row)

\* ------------------------------------------------------------------- inputs

\* the ids of the rows offered
MaxKey == 14
\* rows beyond MaxKey that the table is let to grow to
ExtraRows == 1
MaxRows == MaxKey + ExtraRows

IdTok(n) == [num |-> Some(n), len |-> 1]
WordTok(len) == [num |-> None, len |-> len]

Keys == 1 .. MaxKey
\* the ids also offered with a short name and description
AltKeys == {2}

ValidArgs ==
    {<<IdTok(k), WordTok(NAME_MAX_SIZE), WordTok(DESCRIPTION_MAX_SIZE)>> : k \in Keys}
    \cup {<<IdTok(k), WordTok(1), WordTok(1)>> : k \in AltKeys}

\* lines that fail one or several of the checks of Table::insert
InvalidArgs ==
    {<<>>,
     <<IdTok(1), WordTok(1)>>,
     <<WordTok(3), WordTok(NAME_MAX_SIZE + 1), WordTok(DESCRIPTION_MAX_SIZE + 1), WordTok(1)>>,
     <<WordTok(3), WordTok(NAME_MAX_SIZE + 1), WordTok(DESCRIPTION_MAX_SIZE + 1)>>,
     <<IdTok(0), WordTok(NAME_MAX_SIZE + 1), WordTok(DESCRIPTION_MAX_SIZE)>>,
     <<IdTok(-1), WordTok(NAME_MAX_SIZE), WordTok(DESCRIPTION_MAX_SIZE)>>,
     <<IdTok(1), WordTok(NAME_MAX_SIZE + 1), WordTok(DESCRIPTION_MAX_SIZE + 1)>>,
     <<IdTok(1), WordTok(NAME_MAX_SIZE), WordTok(DESCRIPTION_MAX_SIZE + 1)>>}

\* ------------------------------------------------------------------ actions

\* main: Pager::new and Table::new on the file
Startup(f) == TableNew(PagerNew(f), f)

\* "insert <args>".  A panic ends the process: where the build unwinds, the table is
\* dropped on the way out and its teardown runs; a build with panic=abort skips it.
\* os_appends is the platform the process runs on (see write_and_advance).
Insert(args) ==
    /\ phase = "running"
    /\ \E r \in {TableInsert(pager, file, args)} :
           /\ pages' = r.p.pages
           /\ n_pages' = r.p.n_pages
           /\ accepted' = IF r.res = "Ok" THEN InsertSorted(accepted, RowOf(args))
                          ELSE accepted
           /\ IF r.res = "Panic"
              THEN /\ phase' = "panicked"
                   /\ \E unwinds \in BOOLEAN, os_appends \in BOOLEAN :
                         file' = IF unwinds THEN TableDrop(r.p, file, os_appends).f
                                 ELSE file
              ELSE /\ phase' = phase
                   /\ file' = file
    /\ UNCHANGED session

\* a select that saves the cache when it is done
SelectAndSave ==
    /\ phase = "running"
    /\ \E r \in {TableSelect(pager, file)} :
           /\ pages' = r.p.pages
           /\ n_pages' = r.p.n_pages
           /\ file' = TableDrop(r.p, file, FALSE).f
    /\ UNCHANGED <<phase, session, accepted>>

\* "select"
Select ==
    /\ phase = "running"
    /\ \E r \in {TableSelect(pager, file)} :
           /\ pages' = r.p.pages
           /\ n_pages' = r.p.n_pages
    /\ UNCHANGED <<file, phase, session, accepted>>

\* ".tree"
PrintTree ==
    /\ phase = "running"
    /\ \E q \in {print_tree(pager, file, 0)} :
           /\ pages' = q.pages
           /\ n_pages' = q.n_pages
    /\ UNCHANGED <<file, phase, session, accepted>>

\* ".exit" or the end of the input: main returns and the table is dropped
Exit ==
    /\ phase = "running"
    /\ \E os_appends \in BOOLEAN :
         \E d \in {TableDrop(pager, file, os_appends)} :
             /\ file' = d.f
             /\ phase' = IF d.panic THEN "drop_panicked" ELSE "exited"
    /\ UNCHANGED <<pages, n_pages, session, accepted>>

\* the program is started again on the file the last process left
Reopen ==
    /\ phase # "running"
    /\ \E q \in {Startup(file)} :
           /\ pages' = q.pages
           /\ n_pages' = q.n_pages
    /\ phase' = "running"
    /\ session' = session + 1
    /\ UNCHANGED <<file, accepted>>

\* ----------------------------------------------------------- specifications

\* One session on a new file; rows of the ids 1 .. MaxKey are offered in every order.
Init ==
    /\ file = <<>>
    /\ pages = Startup(<<>>).pages
    /\ n_pages = Startup(<<>>).n_pages
    /\ phase = "running"
    /\ session = 1
    /\ accepted = <<>>

InsertAny ==
    /\ Len(accepted) < MaxRows
    /\ \E args \in ValidArgs \cup InvalidArgs : Insert(args)

Next == InsertAny \/ Select \/ PrintTree \/ Exit

Spec == Init /\ [][Next]_vars

\* Several sessions on one file.  The first row has the id StartKey and every later row
\* the id below the least or above the greatest accepted so far, so that the table
\* grows past the root split until one of its two leaves is full.
MaxSeqKey == 22
StartKey == 8
MaxSessions == 2

FullRow(id) == <<IdTok(id), WordTok(NAME_MAX_SIZE), WordTok(DESCRIPTION_MAX_SIZE)>>

GrowIds ==
    IF accepted = <<>> THEN {StartKey}
    ELSE {accepted[1].id - 1, accepted[Len(accepted)].id + 1} \cap (1 .. MaxSeqKey)

InsertGrow == \E id \in GrowIds : Insert(FullRow(id))

ReopenNext == session < MaxSessions /\ Reopen

NextSessions == InsertGrow \/ Select \/ PrintTree \/ Exit \/ ReopenNext

SpecSessions == Init /\ [][NextSessions]_vars

\* One session on a file that is one allocation, or a few, short of the page cap.  Such a
\* file is what the program leaves where pwrite appends: a first session inserts the
\* ids 1 .. LEAF_NODE_CELL_MAX_NUM and exits, and every later session that runs select
\* and exits adds one more copy of page 0 to the end of the file.
CapSlack == 1
CapRows == 7

RECURSIVE InsertRows(_, _, _)
InsertRows(p, id, last) ==
    IF id > last THEN p
    ELSE CHOOSE r \in {InsertRows(q, id + 1, last) :
                          q \in {TableInsert(p, <<>>, FullRow(id)).p}} : TRUE

FirstSession(last) == TableDrop(InsertRows(Startup(<<>>), 1, last), <<>>, TRUE).f

ReadSession(f) == TableDrop(TableSelect(Startup(f), f).p, f, TRUE).f

RECURSIVE ReadSessions(_, _)
ReadSessions(f, n) ==
    IF n <= 0 THEN f
    ELSE IF n = 1 THEN ReadSession(f)
    ELSE CHOOSE r \in {ReadSessions(g, n - (n \div 2)) :
                          g \in {ReadSessions(f, n \div 2)}} : TRUE

RECURSIVE RowsTo(_)
RowsTo(last) == IF last <= 0 THEN <<>> ELSE Append(RowsTo(last - 1), RowOf(FullRow(last)))

CapFiles ==
    {ReadSessions(FirstSession(LEAF_NODE_CELL_MAX_NUM), n) :
        n \in (PAGE_MAX_NUM - 2 - CapSlack) .. (PAGE_MAX_NUM - 2)}

InitCap ==
    /\ file \in CapFiles
    /\ pages = Startup(file).pages
    /\ n_pages = Startup(file).n_pages
    /\ phase = "running"
    /\ session = 1
    /\ accepted = RowsTo(LEAF_NODE_CELL_MAX_NUM)

CapIds == (LEAF_NODE_CELL_MAX_NUM + 1) .. (LEAF_NODE_CELL_MAX_NUM + CapRows)

InsertCap ==
    /\ Len(accepted) < LEAF_NODE_CELL_MAX_NUM + CapRows
    /\ \E id \in CapIds : Insert(FullRow(id))

NextCap == InsertCap \/ Select \/ PrintTree \/ Exit

SpecCap == InitCap /\ [][NextCap]_vars

\* One session on a new file; full rows of the ids 1 .. MaxKey are inserted in every
\* order, so that a cell goes to every position of a leaf, of the root leaf as it splits,
\* and of the two leaves below the root.
InsertKey ==
    /\ Len(accepted) < MaxRows
    /\ \E k \in Keys : Insert(FullRow(k))

NextOrders == InsertKey \/ Exit

SpecOrders == Init /\ [][NextOrders]_vars

\* Several sessions on one file, the rows inserted in ascending order of id from 1 on:
\* the root splits at the 14th row and the right leaf is full at the 20th.
MaxSeqRows == 21

NextId == IF accepted = <<>> THEN 1 ELSE accepted[Len(accepted)].id + 1

InsertNext ==
    /\ Len(accepted) < MaxSeqRows
    /\ Insert(FullRow(NextId))

NextAscending == InsertNext \/ Select \/ PrintTree \/ Exit \/ ReopenNext

SpecAscending == Init /\ [][NextAscending]_vars

\* --------------------------------------------------------------- properties
\* What the properties below read off a pager p on the file f.

\* the node of page page_index: the cached one, or the one the file holds
NodeAt(p, f, page_index) ==
    IF p.pages[page_index].some THEN NodeOf(p, page_index)
    ELSE read_at(PageAt(f, page_index * PAGE_SIZE))

\* the cells of a leaf that its n_cells counts
LeafCells(node) ==
    TakeFlatten(node.leaf_cells.v, Min(get_n_cells(node), LEAF_NODE_CELL_MAX_NUM), 0)

\* the rows reachable from page page_index, children first and right_child last
RECURSIVE TreeRows(_, _, _)
RECURSIVE ChildRows(_, _, _, _)
ChildRows(p, f, node, i) ==
    IF i < get_n_cells(node)
    THEN TreeRows(p, f, read_internal_cell(node, i).v.child) \o ChildRows(p, f, node, i + 1)
    ELSE TreeRows(p, f, node.right_child.v)

\* the rows of the cells of a leaf
RowsOf(cells) == [i \in 1 .. Len(cells) |-> cells[i].value]

\* the rows below a node
NodeRows(p, f, node) ==
    IF node.kind = "Leaf" THEN RowsOf(LeafCells(node)) ELSE ChildRows(p, f, node, 0)

TreeRows(p, f, page_index) == NodeRows(p, f, NodeAt(p, f, page_index))

IdsOf(rows) == {rows[i].id : i \in 1 .. Len(rows)}

\* the ids stored in the tree of the running process
StoredIds == IdsOf(TreeRows(pager, file, root_node_index))

StrictlyAscending(rows) == \A i \in 1 .. (Len(rows) - 1) : rows[i].id < rows[i + 1].id

\* the cached nodes, their cells and n_cells, and n_pages of q are those of p
CacheUnchanged(p, q) ==
    /\ q.n_pages = p.n_pages
    /\ \A i \in DOMAIN p.pages : p.pages[i].some => q.pages[i] = p.pages[i]

\* C1: in every reachable state of a running table, root a leaf or internal, the insert
\* of an id that is stored in the tree returns the duplicate-key error and leaves the
\* rows of the tree as they were.
C1_DuplicateRejected ==
    phase = "running" =>
        \A rows \in {TreeRows(pager, file, root_node_index)} :
            \A args \in ValidArgs :
                args[1].num.v \in IdsOf(rows) =>
                    \A r \in {TableInsert(pager, file, args)} :
                        /\ r.res = ERR_KEY_EXIST
                        /\ TreeRows(r.p, file, root_node_index) = rows

\* C2: on every table reached by accepted inserts of distinct ids, select prints every
\* accepted row once, in ascending order of id (nothing on an empty table).
C2_SelectAllRows ==
    (phase = "running" /\ StrictlyAscending(accepted)) =>
        TableSelect(pager, file).printed = accepted

\* C3: when the first session on a new file has exited cleanly and the program is
\* started again on the file, select prints the rows that session inserted, sorted by id.
C3_RoundTrip ==
    [][(session = 1 /\ phase = "exited" /\ phase' = "running" /\ StrictlyAscending(accepted))
         => TableSelect(pager', file').printed = accepted]_vars

\* C4: after the clean teardown of any session the file holds exactly n_pages pages, and
\* the file's page i is the encoding of the cached node i for every populated slot i.
C4_FileIsCache ==
    phase = "exited" =>
        /\ Len(file) = n_pages
        /\ \A i \in 0 .. (n_pages - 1) :
               pages[i].some => file[i + 1] = write_at(NodeOf(pager, i))

\* C5: in every reachable state the first n_cells cells of every cached leaf have
\* strictly ascending keys.
C5_LeafKeysAscending ==
    \A i \in DOMAIN pages :
        (pages[i].some /\ NodeOf(pager, i).kind = "Leaf") =>
            \A j \in 1 .. (Len(LeafCells(NodeOf(pager, i))) - 1) :
                LeafCells(NodeOf(pager, i))[j].key < LeafCells(NodeOf(pager, i))[j + 1].key

\* the slots of the cache and of the file that the running process counts as pages
ViewPages == 0 .. (Min(n_pages, PAGE_MAX_NUM) - 1)

IsMaxOf(key, ids) == key \in ids /\ \A x \in ids : x <= key

\* C6: for every internal node, each cell's key is the greatest key stored under the
\* cell's child, and every key under right_child is greater than every cell's key.
C6_SeparatorsAreMaxKeys ==
    phase = "running" =>
        \A i \in ViewPages :
            \A node \in {NodeAt(pager, file, i)} :
                node.kind = "Internal" =>
                    \A c \in 0 .. (get_n_cells(node) - 1) :
                        /\ IsMaxOf(read_internal_cell(node, c).v.key,
                                   IdsOf(TreeRows(pager, file,
                                                  read_internal_cell(node, c).v.child)))
                        /\ \A x \in IdsOf(TreeRows(pager, file, node.right_child.v)) :
                               x > read_internal_cell(node, c).v.key

\* the shape the root split leaves: page 0 internal with one cell {child 2, key the
\* greatest key of page 2} and right_child 1, pages 1 and 2 leaves of 7 cells each
SplitShape(p) ==
    /\ p.n_pages = 3
    /\ \A i \in 0 .. 2 : p.pages[i].some
    /\ NodeOf(p, 0).kind = "Internal"
    /\ NodeOf(p, 0).n_cells = 1
    /\ NodeOf(p, 0).right_child = Some(1)
    /\ NodeOf(p, 0).internal_cells.v[0].child = 2
    /\ \A i \in 1 .. 2 :
           /\ NodeOf(p, i).kind = "Leaf"
           /\ NodeOf(p, i).n_cells = 7
           /\ Len(LeafCells(NodeOf(p, i))) = 7
    /\ IsMaxOf(NodeOf(p, 0).internal_cells.v[0].key,
               {LeafCells(NodeOf(p, 2))[j].key : j \in 1 .. 7})

\* C7: whatever the order in which 14 distinct ids are inserted into a new table, the
\* 14th insert succeeds, and the table of 14 rows has page 0 internal with n_cells 1,
\* right_child 1 and the cell {child 2, key the greatest key of page 2}, and pages 1
\* and 2 leaves of 7 cells each.
C7_RootSplit ==
    /\ (phase = "running" /\ Len(accepted) = LEAF_NODE_CELL_MAX_NUM) =>
           \A args \in ValidArgs :
               args[1].num.v \notin IdsOf(accepted) =>
                   TableInsert(pager, file, args).res = "Ok"
    /\ Len(accepted) = LEAF_NODE_CELL_MAX_NUM + 1 =>
           /\ SplitShape(pager)
           /\ Len(TreeRows(pager, file, root_node_index)) = LEAF_NODE_CELL_MAX_NUM + 1
           /\ IdsOf(TreeRows(pager, file, root_node_index)) = IdsOf(accepted)

\* C7 witness: a table whose 14th row was inserted below rows accepted before it
C7_Witness ==
    /\ phase = "running"
    /\ Len(accepted) = LEAF_NODE_CELL_MAX_NUM + 1
    /\ NodeOf(pager, 0).kind = "Internal"
    /\ NodeOf(pager, 1).n_cells = 7
    /\ NodeOf(pager, 2).n_cells = 7

\* the insert of id lands in a full leaf that is not the root
LandsInFullLeaf(id) ==
    \A cur \in {CursorFrom(pager, file, id)} :
        /\ ~NodeOf(cur.p, cur.c.page_index).is_root
        /\ get_n_cells(NodeOf(cur.p, cur.c.page_index)) >= LEAF_NODE_CELL_MAX_NUM

\* C8: an insert that lands in a full leaf that is not the root ends the process and
\* leaves the rows reachable from page 0 as they were before it, in the cache and in
\* the file that the teardown of the unwinding process wrote.
C8_AbortKeepsTree ==
    [][\A id \in 1 .. MaxSeqKey :
         (phase = "running" /\ LandsInFullLeaf(id) /\ Insert(FullRow(id))) =>
             /\ phase' = "panicked"
             /\ TreeRows(pager', file, root_node_index)
                    = TreeRows(pager, file, root_node_index)
             /\ file' # file =>
                    TreeRows(PagerNew(file'), file', root_node_index)
                        = TreeRows(pager, file, root_node_index)]_vars

\* C9: an insert that fails with ERR_TABLE_FULL leaves every cached node, with its
\* cells and n_cells, and n_pages as they were.
C9_TableFullKeepsState ==
    phase = "running" =>
        \A id \in CapIds :
            \A r \in {TableInsert(pager, file, FullRow(id))} :
                r.res = ERR_TABLE_FULL => CacheUnchanged(pager, r.p)

\* the error of the first check that fails, in the order stated: the count of the
\* arguments, the id as an i64, the id's sign, the name's length, the description's
\* length, the id's presence among the ids stored in the tree; "Ok" when none fails
FirstFailingCheck(args, stored) ==
    IF Len(args) # 3 THEN ERR_INSERT_SYNTAX
    ELSE IF ~args[1].num.some THEN ERR_INSERT_SYNTAX
    ELSE IF args[1].num.v <= 0 THEN ERR_NOT_POSITIVE_ID
    ELSE IF args[2].len > NAME_MAX_SIZE THEN ERR_NAME_TOO_LONG
    ELSE IF args[3].len > DESCRIPTION_MAX_SIZE THEN ERR_DESCRIPTION_TOO_LONG
    ELSE IF args[1].num.v \in stored THEN ERR_KEY_EXIST
    ELSE "Ok"

CheckErrors ==
    {ERR_INSERT_SYNTAX, ERR_NOT_POSITIVE_ID, ERR_NAME_TOO_LONG, ERR_DESCRIPTION_TOO_LONG,
     ERR_KEY_EXIST}

\* C10: insert reports the error of the first failing check, a name of 32 bytes and a
\* description of 256 bytes pass, and after any of these errors the cached nodes and
\* n_pages are as they were.
C10_FirstFailingCheck ==
    phase = "running" =>
        \A stored \in {StoredIds} :
            \A args \in ValidArgs \cup InvalidArgs :
                \A r \in {TableInsert(pager, file, args)} :
                    \A first \in {FirstFailingCheck(args, stored)} :
                        /\ first # "Ok" => r.res = first
                        /\ first = "Ok" => r.res \notin CheckErrors
                        /\ r.res \in CheckErrors => CacheUnchanged(pager, r.p)

\* the bytes a page of the file takes: its header, its cells and its padding
PageBytes(page) ==
    WrittenLen(IF page.kind = 1 THEN "Internal" ELSE "Leaf", Len(page.cells))
    + page.padding_len

\* the length of the file in bytes
RECURSIVE FileBytes(_)
FileBytes(f) == IF f = <<>> THEN 0 ELSE PageBytes(Head(f)) + FileBytes(Tail(f))

\* C11: after a clean teardown, whatever sessions came before it, the length of the file
\* is a positive multiple of PAGE_SIZE: every page written took exactly PAGE_SIZE bytes,
\* and a fresh table wrote at least page 0.
C11_FileIsWholePages ==
    phase = "exited" =>
        /\ Len(file) >= 1
        /\ \A i \in 1 .. Len(file) : PageBytes(file[i]) = PAGE_SIZE
        /\ FileBytes(file) > 0
        /\ FileBytes(file) % PAGE_SIZE = 0

\* a later session has torn down cleanly a tree of a root and two leaves
C11_Witness ==
    /\ phase = "exited"
    /\ session = 2
    /\ n_pages >= 3
    /\ FileBytes(file) >= 3 * PAGE_SIZE
    /\ \E i \in 1 .. Len(file) : file[i].kind = 1

\* the page indexes whose slot of the cache is populated
Cached == {i \in 0 .. (PAGE_MAX_NUM - 1) : pages[i].some}

ParentIsInternal(node) ==
    /\ node.parent \in 0 .. (n_pages - 1)
    /\ NodeAt(pager, file, node.parent).kind = "Internal"

\* C13: between operations, the parent of every node is NOT_EXIST if and only if the node
\* is the root, and otherwise the page index of an existing internal node.
C13_ParentIsInternal ==
    phase = "running" =>
        \A i \in Cached :
            /\ (NodeOf(pager, i).parent = NOT_EXIST) <=> NodeOf(pager, i).is_root
            /\ ~NodeOf(pager, i).is_root => ParentIsInternal(NodeOf(pager, i))

\* the ids whose insert is examined in a state
ProbeIds == 1 .. (MaxSeqRows + 1)

\* The call of insert_leaf_cell that Table::insert of a row with the id `id` makes on the
\* cursor `cur`: the node and the cell_index it is given, or nothing where the duplicate
\* check stops the insert or the leaf goes to the split.
CallAt(cur, n_cells, id) ==
    IF /\ cur.c.cell_index < n_cells
       /\ (~CursorRead(cur.p, cur.c).some \/ id = CursorRead(cur.p, cur.c).v.key)
    THEN {}
    ELSE IF HasRoom(NodeOf(cur.p, cur.c.page_index))
    THEN {[node |-> NodeOf(cur.p, cur.c.page_index), cell_index |-> cur.c.cell_index]}
    ELSE {}

InsertLeafCellCalls(p, f, id) ==
    CallAt(CursorFrom(p, f, id), get_n_cells(NodeOf(p, root_node_index)), id)

\* C14: n_cells of a leaf is at most LEAF_NODE_CELL_MAX_NUM and n_cells of an internal
\* node at most INTERNAL_NODE_CELL_MAX_NUM; insert_leaf_cell is only called on a leaf
\* with n_cells < LEAF_NODE_CELL_MAX_NUM and with cell_index <= n_cells.
C14_CellCounts ==
    /\ \A i \in Cached :
          get_n_cells(NodeOf(pager, i)) <=
              (IF NodeOf(pager, i).kind = "Leaf" THEN LEAF_NODE_CELL_MAX_NUM
               ELSE INTERNAL_NODE_CELL_MAX_NUM)
    /\ phase = "running" =>
          \A id \in ProbeIds :
              \A call \in InsertLeafCellCalls(get_page(pager, file, root_node_index).p,
                                              file, id) :
                  /\ call.node.kind = "Leaf"
                  /\ get_n_cells(call.node) < LEAF_NODE_CELL_MAX_NUM
                  /\ call.cell_index <= get_n_cells(call.node)

\* below an internal root, one leaf is full and goes to the split, and the other takes a
\* cell in the middle through insert_leaf_cell
C14_Witness ==
    /\ phase = "running"
    /\ NodeOf(get_page(pager, file, root_node_index).p, root_node_index).kind = "Internal"
    /\ \E i \in Cached : /\ NodeOf(pager, i).kind = "Leaf"
                         /\ get_n_cells(NodeOf(pager, i)) = LEAF_NODE_CELL_MAX_NUM
    /\ \E id \in ProbeIds :
          \E call \in InsertLeafCellCalls(get_page(pager, file, root_node_index).p,
                                          file, id) :
              /\ call.cell_index > 0
              /\ call.cell_index < get_n_cells(call.node)

\* the node r has the header of `node` and its first n_cells cells
SameNode(node, r) ==
    /\ r.kind = node.kind
    /\ r.is_root = node.is_root
    /\ r.parent = node.parent
    /\ r.n_cells = node.n_cells
    /\ r.right_child = node.right_child
    /\ \A i \in 0 .. (get_n_cells(node) - 1) :
          IF node.kind = "Internal"
          THEN read_internal_cell(r, i) = read_internal_cell(node, i)
          ELSE read_leaf_cell(r, i) = read_leaf_cell(node, i)

\* the codec alone: the fields write_at writes for a cached node decode to the node
CodecRoundTrip ==
    \A i \in Cached : SameNode(NodeOf(pager, i), read_at(write_at(NodeOf(pager, i))))

\* C15: write_at of a node followed by read_at at the same page offset gives a node with
\* the same kind, is_root, parent, n_cells, right_child and first n_cells cells, for
\* every node of a reachable state: once the teardown has written the nodes of the cache,
\* each is read back from the offset it was written at.
C15_WriteThenRead ==
    phase = "exited" =>
        \A i \in Cached :
            /\ i < Len(file)
            /\ SameNode(NodeOf(pager, i), read_at(PageAt(file, i * PAGE_SIZE)))

\* C16: no insert, select or tree print changes the file: as long as the session runs
\* the file is what it was at startup, and an insert that ends the session leaves the
\* file as it was unless the teardown runs on the way out.
C16_NoWriteBeforeTeardown ==
    [][/\ phase' = "running" => file' = file
       /\ (phase = "running" /\ phase' = "panicked") =>
             \/ file' = file
             \/ \E os_appends \in BOOLEAN :
                   file' = TableDrop(pager', file, os_appends).f]_vars

\* a later session has changed its root and the file still has the root it read
C16_Witness ==
    /\ phase = "running"
    /\ session = 2
    /\ Len(file) >= 1
    /\ 0 \in Cached
    /\ get_n_cells(NodeOf(pager, 0)) > get_n_cells(read_at(file[1]))

\* how many times a row occurs in a sequence of rows
RowCount(rows, row) == Cardinality({i \in 1 .. Len(rows) : rows[i] = row})

\* the rows `after` are the rows `before`, in their order, with one row put in at j
PutInAt(before, after, j) ==
    before = [i \in 1 .. (Len(after) - 1) |-> IF i < j THEN after[i] ELSE after[i + 1]]

\* As multisets, the rows `after` are the rows `before` and the row `row` once more:
\* either the order of the rows is kept as well, or the rows are counted.
AddsRow(before, after, row) ==
    /\ Len(after) = Len(before) + 1
    /\ \/ \E j \in 1 .. Len(after) : after[j] = row /\ PutInAt(before, after, j)
       \/ \A r \in {before[i] : i \in 1 .. Len(before)} \cup {row} :
             RowCount(after, r) = RowCount(before, r) + (IF r = row THEN 1 ELSE 0)

\* C17: an insert that returns Ok, through insert_leaf_cell or through the split of the
\* root leaf, makes the multiset of the rows in the leaves the multiset before it with
\* the new row added once: no earlier row is lost, duplicated or altered.
C17_InsertAddsOneRow ==
    [][(phase = "running" /\ Len(accepted') = Len(accepted) + 1) =>
          \E args \in ValidArgs :
              /\ accepted' = InsertSorted(accepted, RowOf(args))
              /\ \A before \in {TreeRows(pager, file, root_node_index)} :
                    \A after \in {TreeRows(pager', file', root_node_index)} :
                        AddsRow(before, after, RowOf(args))]_vars

\* the rows of all the ids offered are in the two leaves below an internal root
C17_Witness ==
    /\ phase = "running"
    /\ NodeOf(pager, root_node_index).kind = "Internal"
    /\ \A rows \in {TreeRows(pager, file, root_node_index)} :
          /\ Len(rows) = MaxKey
          /\ IdsOf(rows) = Keys

\* the merged sequence: the cells with `cell` put in at cell_index (from 0)
Merged(cells, cell_index, cell) ==
    [k \in 1 .. (Len(cells) + 1) |->
        IF k - 1 < cell_index THEN cells[k]
        ELSE IF k - 1 = cell_index THEN cell
        ELSE cells[k - 1]]

\* a cell that no insert stores
ProbeCell == [key |-> 0, value |-> [id |-> 0, name |-> 1, description |-> 1]]

\* the leaf holds exactly the positions first .. first + 6 of the merged sequence m, in
\* its slots 0 .. 6
HoldsHalf(leaf, m, first) ==
    /\ leaf.kind = "Leaf"
    /\ get_n_cells(leaf) = SPLIT_LEFT_LEAF_NODE_NUM
    /\ DOMAIN leaf.leaf_cells.v = 0 .. (SPLIT_LEFT_LEAF_NODE_NUM - 1)
    /\ \A k \in 0 .. (SPLIT_LEFT_LEAF_NODE_NUM - 1) : leaf.leaf_cells.v[k] = m[first + k + 1]

\* the two leaves that write_leaf_cell leaves in r.p when the full leaf page_index of p
\* is split: the new right leaf, and the left leaf, which is the left child where the
\* full leaf was the root and the full leaf itself otherwise
SplitHalves(p, page_index, r, m) ==
    /\ r.res = (IF NodeOf(p, page_index).is_root THEN "Ok" ELSE "Panic")
    /\ HoldsHalf(NodeOf(r.p, p.n_pages), m, SPLIT_LEFT_LEAF_NODE_NUM)
    /\ HoldsHalf(NodeOf(r.p, IF NodeOf(p, page_index).is_root THEN p.n_pages + 1
                             ELSE page_index), m, 0)

\* C18: on the leaf-split path, for every cell_index of the cursor in 0 .. 13, the two
\* leaves hold the merged sequence (the 13 old cells with the new cell put in at
\* cell_index): its positions 0 .. 6 in the slots 0 .. 6 of the left leaf and its
\* positions 7 .. 13 in the slots 0 .. 6 of the new right leaf, n_cells 7 and 7.
C18_SplitHalves ==
    \A i \in Cached :
        (/\ phase = "running"
         /\ NodeOf(pager, i).kind = "Leaf"
         /\ ~HasRoom(NodeOf(pager, i))
         /\ n_pages + 2 <= PAGE_MAX_NUM) =>
            \A cell_index \in 0 .. LEAF_NODE_CELL_MAX_NUM :
                SplitHalves(pager, i,
                            write_leaf_cell(pager, file,
                                            [page_index |-> i, cell_index |-> cell_index,
                                             end_of_table |-> FALSE],
                                            ProbeCell),
                            Merged(LeafCells(NodeOf(pager, i)), cell_index, ProbeCell))

\* the root leaf is full and the one id not stored belongs at cell_index 7, the first
\* position of the right half
C18_Witness ==
    /\ phase = "running"
    /\ NodeOf(pager, root_node_index).kind = "Leaf"
    /\ get_n_cells(NodeOf(pager, root_node_index)) = LEAF_NODE_CELL_MAX_NUM
    /\ CursorFrom(pager, file, SPLIT_LEFT_LEAF_NODE_NUM + 1).c.cell_index
           = SPLIT_LEFT_LEAF_NODE_NUM
    /\ SPLIT_LEFT_LEAF_NODE_NUM + 1 \notin StoredIds

\* the keys looked up in a state
ProbeKeys == 0 .. (MaxSeqRows + 1)

\* the smallest slot of an internal node whose separator is >= key, n_cells if none is
FirstSlotFor(node, key) ==
    Min(get_n_cells(node),
        CHOOSE i \in 0 .. get_n_cells(node) :
            /\ (i < get_n_cells(node) => read_internal_cell(node, i).v.key >= key)
            /\ \A j \in 0 .. (i - 1) : read_internal_cell(node, j).v.key < key)

\* the leaf that the descent by separators from page_index ends on
RECURSIVE DescentLeaf(_, _, _, _)
DescentLeaf(p, f, page_index, key) ==
    IF NodeAt(p, f, page_index).kind = "Leaf" THEN page_index
    ELSE DescentLeaf(p, f,
                     get_child_index(NodeAt(p, f, page_index),
                                     FirstSlotFor(NodeAt(p, f, page_index), key)),
                     key)

\* the cursor c is where `key` is, or where it belongs, among the cells of the leaf
CursorPlace(c, cells, n_cells, key, stored) ==
    IF stored
    THEN /\ c.cell_index < Len(cells)
         /\ cells[c.cell_index + 1].key = key
         /\ ~c.end_of_table
    ELSE /\ c.cell_index = Cardinality({j \in 1 .. Len(cells) : cells[j].key < key})
         /\ c.end_of_table = (c.cell_index = n_cells)

\* C19: for every reachable tree and every key, Cursor::from ends on the leaf that the
\* descent by separators gives (at each internal node the child of the smallest slot
\* whose separator is >= key, else right_child); if the key is stored anywhere in the
\* tree the cursor is at its cell with end_of_table false, and otherwise cell_index is
\* the number of keys of the leaf below the key and end_of_table is cell_index = n_cells.
C19_CursorFrom ==
    phase = "running" =>
        \A ids \in {StoredIds} :
            \A key \in ProbeKeys :
                \A cur \in {CursorFrom(pager, file, key)} :
                    /\ cur.c.page_index = DescentLeaf(pager, file, root_node_index, key)
                    /\ CursorPlace(cur.c, LeafCells(NodeOf(cur.p, cur.c.page_index)),
                                   get_n_cells(NodeOf(cur.p, cur.c.page_index)),
                                   key, key \in ids)

\* below an internal root the separator itself is looked up and found at the last cell
\* of the left leaf, and a key above all the stored ones belongs past the last cell of
\* the right leaf
C19_Witness ==
    /\ phase = "running"
    /\ NodeOf(pager, root_node_index).kind = "Internal"
    /\ \E key \in ProbeKeys :
          /\ key = read_internal_cell(NodeOf(pager, root_node_index), 0).v.key
          /\ CursorFrom(pager, file, key).c.page_index # NodeOf(pager, root_node_index).right_child.v
          /\ CursorFrom(pager, file, key).c.cell_index = SPLIT_LEFT_LEAF_NODE_NUM - 1
    /\ \E key \in ProbeKeys \ StoredIds :
          /\ CursorFrom(pager, file, key).c.page_index = NodeOf(pager, root_node_index).right_child.v
          /\ CursorFrom(pager, file, key).c.cell_index >= SPLIT_RIGHT_LEAF_NODE_NUM
          /\ CursorFrom(pager, file, key).c.end_of_table

\* the encodings of the populated slots of the cache, in ascending order of page index
RECURSIVE CachedPages(_, _)
CachedPages(p, i) ==
    IF i >= Min(p.n_pages, PAGE_MAX_NUM) THEN <<>>
    ELSE (IF p.pages[i].some THEN <<write_at(NodeOf(p, i))>> ELSE <<>>)
         \o CachedPages(p, i + 1)

C21_CacheOnlyGrows ==
    [][/\ session' = session =>
             /\ n_pages' >= n_pages
             /\ \A i \in Cached : pages'[i].some
       /\ \A i \in Cached :
             /\ get_page(pager, file, i) = [ok |-> TRUE, p |-> pager]
             /\ fetch_page_from_file(pager, file, i) = pager
       /\ (Select \/ PrintTree) => \A i \in Cached : pages'[i] = pages[i]]_vars

\* a later session has split the root leaf it read: the cached root is internal, page 0
\* of the file is still the leaf, and the two new pages are past the end of the file
C21_Witness ==
    /\ phase = "running"
    /\ session = 2
    /\ Len(file) >= 1
    /\ n_pages = Len(file) + 2
    /\ 0 \in Cached
    /\ NodeOf(pager, 0).kind = "Internal"
    /\ read_at(file[1]).kind = "Leaf"

\* The calls of get_two_pages that write_leaf_cell makes with the cursor c: the indices
\* given and the pager at the time of the call.  RootCall: the call of line 447, made
\* once get_page(left_child_page_index)? has returned; SplitCalls: the call of line 417,
\* made once get_page(new_page_index)? has returned, and the one that follows it where
\* the old node is the root.
RootCall(g, c, left_child_page_index) ==
    IF ~g.ok THEN {}
    ELSE {[first |-> c.page_index, second |-> left_child_page_index, p |-> g.p]}

SplitCalls(h, f, c, new_page_index) ==
    IF ~h.ok THEN {}
    ELSE {[first |-> c.page_index, second |-> new_page_index, p |-> h.p]}
         \cup (IF NodeOf(h.p, c.page_index).is_root
               THEN RootCall(get_page(h.p, f, get_new_page_index(h.p)), c,
                             get_new_page_index(h.p))
               ELSE {})

\* the calls of get_two_pages that Table::insert of a row with the id `id` makes
TwoPagesCallsAt(cur, f, n_cells, id) ==
    IF /\ cur.c.cell_index < n_cells
       /\ (~CursorRead(cur.p, cur.c).some \/ id = CursorRead(cur.p, cur.c).v.key)
    THEN {}
    ELSE IF HasRoom(NodeOf(cur.p, cur.c.page_index)) THEN {}
    ELSE SplitCalls(get_page(cur.p, f, get_new_page_index(cur.p)), f, cur.c,
                    get_new_page_index(cur.p))

TwoPagesCalls(p, f, id) ==
    TwoPagesCallsAt(CursorFrom(p, f, id), f, get_n_cells(NodeOf(p, root_node_index)), id)

\* C22: every call of get_two_pages that the insert path makes (the one of the split,
\* with the old leaf and the new page, and the one of the root split, with the root and
\* the left child) has two different page indices, both below PAGE_MAX_NUM and both
\* populated in the cache at the time of the call.
C22_TwoPagesDistinct ==
    phase = "running" =>
        \A id \in ProbeIds :
            \A call \in TwoPagesCalls(get_page(pager, file, root_node_index).p, file, id) :
                /\ call.first # call.second
                /\ call.first \in 0 .. (PAGE_MAX_NUM - 1)
                /\ call.second \in 0 .. (PAGE_MAX_NUM - 1)
                /\ call.p.pages[call.first].some
                /\ call.p.pages[call.second].some

\* a second session is at a full leaf: its insert makes both calls where the leaf is the
\* root, and the first call alone where the leaf is below the root
C22_Witness ==
    /\ phase = "running"
    /\ \E id \in ProbeIds :
          Cardinality(TwoPagesCalls(get_page(pager, file, root_node_index).p, file, id))
              = (IF NodeOf(get_page(pager, file, root_node_index).p, root_node_index).kind
                       = "Leaf" THEN 2 ELSE 1)
    /\ session = 2

\* C23: in every cached leaf exactly the slots 0 .. n_cells - 1 hold a cell and the
\* slots from n_cells on are empty, between operations and also right after a leaf
\* split and a root split; write_at then writes exactly n_cells cells.
C23_LeafSlots ==
    \A i \in Cached :
        NodeOf(pager, i).kind = "Leaf" =>
            /\ NodeOf(pager, i).leaf_cells.some
            /\ DOMAIN NodeOf(pager, i).leaf_cells.v = 0 .. (get_n_cells(NodeOf(pager, i)) - 1)
            /\ Len(WrittenCells(NodeOf(pager, i))) = get_n_cells(NodeOf(pager, i))
            /\ Len(write_at(NodeOf(pager, i)).cells) = write_at(NodeOf(pager, i)).n_cells

\* the full right leaf below the root has just been split: it and the new page have the
\* two halves, 7 cells each, and the left leaf has the cells the root split gave it
C23_Witness ==
    /\ phase = "panicked"
    /\ n_pages = 4
    /\ Cached = {0, 1, 2, 3}
    /\ NodeOf(pager, 0).kind = "Internal"
    /\ DOMAIN NodeOf(pager, 1).leaf_cells.v = 0 .. (SPLIT_LEFT_LEAF_NODE_NUM - 1)
    /\ DOMAIN NodeOf(pager, 2).leaf_cells.v = 0 .. (SPLIT_LEFT_LEAF_NODE_NUM - 1)
    /\ DOMAIN NodeOf(pager, 3).leaf_cells.v = 0 .. (SPLIT_RIGHT_LEAF_NODE_NUM - 1)

\* page 0 is a leaf root and the only page
LeafRootShape(p) ==
    /\ p.n_pages = 1
    /\ p.pages[0].some
    /\ NodeOf(p, 0).kind = "Leaf"
    /\ NodeOf(p, 0).is_root

\* page 0 is an internal root with one cell, whose child is page 2, and right_child
\* page 1, both leaves, and there are three pages
InternalRootShape(p) ==
    /\ p.n_pages = 3
    /\ \A i \in 0 .. 2 : p.pages[i].some
    /\ NodeOf(p, 0).kind = "Internal"
    /\ NodeOf(p, 0).is_root
    /\ get_n_cells(NodeOf(p, 0)) = 1
    /\ DOMAIN NodeOf(p, 0).internal_cells.v = {0}
    /\ read_internal_cell(NodeOf(p, 0), 0).v.child = 2
    /\ NodeOf(p, 0).right_child = Some(1)
    /\ NodeOf(p, 1).kind = "Leaf"
    /\ NodeOf(p, 2).kind = "Leaf"

\* C24: in a session started on an empty file the tree has, between operations, one of
\* two shapes: a leaf root with n_pages 1, or an internal root with one cell whose child
\* is page 2 and right_child page 1, both leaves, with n_pages 3; n_pages is never 2
\* and never above 3, and no insert returns the table-full error.
C24_TwoShapes ==
    (session = 1 /\ phase = "running") =>
        /\ LeafRootShape(pager) \/ InternalRootShape(pager)
        /\ n_pages \in {1, 3}
        /\ \A id \in ProbeIds :
              TableInsert(pager, file, FullRow(id)).res # ERR_TABLE_FULL

\* the first session has an internal root and a full right leaf: the next row of a new
\* id above the separator cannot be stored by a split below the root
C24_Witness ==
    /\ session = 1
    /\ phase = "running"
    /\ InternalRootShape(pager)
    /\ get_n_cells(NodeOf(pager, 1)) = LEAF_NODE_CELL_MAX_NUM
    /\ TableInsert(pager, file, FullRow(NextId)).res = "Panic"

\* C25: in a session started on an empty file, between operations every slot of
\* 0 .. n_pages - 1 is populated (pages are allocated at index n_pages only), so the
\* teardown writes all n_pages pages in increasing order of index and skips none.
C25_AllPagesWritten ==
    /\ (session = 1 /\ phase = "running") =>
          /\ Cached = 0 .. (n_pages - 1)
          /\ \A os_appends \in BOOLEAN :
                \A d \in {TableDrop(pager, file, os_appends)} :
                    /\ ~d.panic
                    /\ Len(d.f) = n_pages
                    /\ \A i \in 0 .. (n_pages - 1) :
                          PageAt(d.f, i * PAGE_SIZE) = write_at(NodeOf(pager, i))
    /\ (session = 1 /\ phase = "exited") =>
          /\ Len(file) = n_pages
          /\ file = CachedPages(pager, 0)

\* the first session has been torn down with a root above two leaves: the file is the
\* root, the right leaf and the left leaf, in this order
C25_Witness ==
    /\ session = 1
    /\ phase = "exited"
    /\ n_pages = 3
    /\ Len(file) = 3
    /\ read_at(file[1]).kind = "Internal"
    /\ read_at(file[2]).kind = "Leaf"
    /\ read_at(file[3]).kind = "Leaf"
    /\ read_at(file[1]).right_child = Some(1)

====
